---- MODULE Spec2Model ----
(***************************************************************************)
(* Lohas five-line channel dashboard: app.py, app2.py, app3.py, app4.py.   *)
(*                                                                         *)
(* Numbers.  The programs compute in binary floating point; the model      *)
(* computes in fixed point.  For a frame of n closes the regression        *)
(* denominator is den = n * (n*Sxx - Sx*Sx); slope, intercept, trend and   *)
(* residuals are exact integers at scale den, the standard deviation is    *)
(* rounded down to that grid (the one rounding of the model), and the      *)
(* columns of a result are held at scale 10*den so that the multipliers    *)
(* 1.2, 1.5, 2.4 of app3 are integers too (mult10 = 12, 15, 24).           *)
(* A frame of one row divides 0 by 0: its columns are NaN (flag nan).      *)
(*                                                                         *)
(* Strings are ASCII: time frames "D", "W", "M" stand for the select box   *)
(* options day, week, month; labels are named in English (see Labels).     *)
(***************************************************************************)
EXTENDS Integers, Sequences, FiniteSets, TLC

VARIABLES
  variant,    \* which program runs: "app", "app2", "app3", "app4"
  fin,        \* function harness: the input handed to the function under check
  fout,       \* function harness: what the function returned
  watchlist,  \* st.session_state.watchlist_dict: insertion-ordered <<[t, n]>>
  market,     \* what the market-data gateway holds for each ticker
  cache,      \* st.cache_data of get_lohas_data / get_stock_data
  screen,     \* what the last script run rendered
  sheet,      \* the rows of the worksheet that persists the watchlist
  account,    \* st.session_state of the login gate: authenticated, username
  book        \* the spreadsheet "MyWatchlist": worksheet title -> its rows

vars ==
  <<variant, fin, fout, watchlist, market, cache, screen, sheet, account, book>>

(***************************************************************************)
(* Bounds of the model.                                                    *)
(***************************************************************************)
MaxLen == 4       \* longest frame the function harness draws
MaxPrice == 3     \* closes are 1..MaxPrice in the function harness
MaxLevel == 4     \* thresholds and prices of the classifier harness: 0..MaxLevel
WeekRows == 2     \* trading rows that fall into one W-FRI bin
MonthRows == 3    \* trading rows that fall into one ME bin

Variants == {"app", "app2", "app3", "app4"}
TimeFrames == {"D", "W", "M"}

(***************************************************************************)
(* Arithmetic helpers.                                                     *)
(***************************************************************************)
RECURSIVE SeqSum(_)
SeqSum(s) == IF s = <<>> THEN 0 ELSE Head(s) + SeqSum(Tail(s))

Dot(a, b) == SeqSum([i \in 1..Len(a) |-> a[i] * b[i]])

RECURSIVE ISqrtBetween(_, _, _)
ISqrtBetween(v, lo, hi) ==
  IF lo >= hi THEN lo
  ELSE LET mid == (lo + hi + 1) \div 2
       IN IF mid * mid <= v THEN ISqrtBetween(v, mid, hi)
                            ELSE ISqrtBetween(v, lo, mid - 1)

\* floor of the square root
ISqrt(v) == ISqrtBetween(v, 0, IF v < 46340 THEN v ELSE 46340)

\* np.arange(len(df))
arange(n) == [i \in 1..n |-> i - 1]

(***************************************************************************)
(* stats.linregress(x, y) as the programs use it: slope = ssxym / ssxm,    *)
(* intercept = ymean - slope * xmean.  Returned at scale den; one row      *)
(* gives ssxm = 0 and slope = 0/0 = NaN without raising.                   *)
(***************************************************************************)
\* linregress with the intercept taken as the mean of y
linregress_intercept_is_mean(x, y) ==
  LET n == Len(x)
      ssxx == n * Dot(x, x) - SeqSum(x) * SeqSum(x)
      ssxy == n * Dot(x, y) - SeqSum(x) * SeqSum(y)
  IN [den |-> n * ssxx,
      slope |-> n * ssxy,
      intercept |-> SeqSum(y) * ssxx,
      nan |-> (ssxx = 0)]

linregress(x, y) ==
  LET n == Len(x)
      ssxx == n * Dot(x, x) - SeqSum(x) * SeqSum(x)
      ssxy == n * Dot(x, y) - SeqSum(x) * SeqSum(y)
  IN [den |-> n * ssxx,
      slope |-> n * ssxy,
      intercept |-> SeqSum(y) * ssxx - ssxy * SeqSum(x),
      nan |-> (ssxx = 0)]

\* r_value ** 2 of stats.linregress: r = 0.0 when ssxm or ssym is 0, else
\* ssxym / sqrt(ssxm * ssym); the square as the fraction num / den
r_squared_linregress(x, y) ==
  LET n == Len(x)
      ssxx == n * Dot(x, x) - SeqSum(x) * SeqSum(x)
      ssxy == n * Dot(x, y) - SeqSum(x) * SeqSum(y)
      ssyy == n * Dot(y, y) - SeqSum(y) * SeqSum(y)
  IN IF ssxx = 0 \/ ssyy = 0 THEN [kind |-> "number", num |-> 0, den |-> 1]
     ELSE [kind |-> "number", num |-> ssxy * ssxy, den |-> ssxx * ssyy]

\* np.std(r): population standard deviation (denominator n), r at scale den
np_std(r) ==
  LET n == Len(r)
      mean == SeqSum(r) \div n
      dev2 == [i \in 1..n |-> (r[i] - mean) * (r[i] - mean)]
  IN ISqrt(SeqSum(dev2) \div n)

(***************************************************************************)
(* The channel columns of a frame, given the fit: df['TL'], std,           *)
(* df['TL+2SD'], df['TL+1SD'], df['TL-1SD'], df['TL-2SD'].  mult10_1 and   *)
(* mult10_2 are ten times the multipliers of the standard deviation.       *)
(***************************************************************************)
band_columns(closes, fit, mult10_1, mult10_2) ==
  LET n == Len(closes)
      x == arange(n)
      TLd == [i \in 1..n |-> fit.slope * x[i] + fit.intercept]
      std == np_std([i \in 1..n |-> fit.den * closes[i] - TLd[i]])
  IN [kind |-> "result", nan |-> fit.nan, scale |-> 10 * fit.den,
      Close |-> [i \in 1..n |-> 10 * fit.den * closes[i]],
      TL |-> [i \in 1..n |-> 10 * TLd[i]],
      P2SD |-> [i \in 1..n |-> 10 * TLd[i] + mult10_2 * std],
      P1SD |-> [i \in 1..n |-> 10 * TLd[i] + mult10_1 * std],
      M1SD |-> [i \in 1..n |-> 10 * TLd[i] - mult10_1 * std],
      M2SD |-> [i \in 1..n |-> 10 * TLd[i] - mult10_2 * std],
      std |-> std, slope |-> fit.slope, den |-> fit.den, closes |-> closes]

\* channel_columns with the two lower bands added instead of subtracted
channel_columns_sign_slip(closes, mult10_1, mult10_2) ==
  LET r == band_columns(closes, linregress(arange(Len(closes)), closes),
                        mult10_1, mult10_2)
  IN [r EXCEPT !.M1SD = r.P1SD, !.M2SD = r.P2SD]

\* lines "linear regression" to "return": x, linregress, TL, std, four bands
channel_columns(closes, mult10_1, mult10_2) ==
  band_columns(closes, linregress(arange(Len(closes)), closes), mult10_1, mult10_2)

None == [kind |-> "None"]

(***************************************************************************)
(* What yf.download hands back: it raises, or it returns a frame of closes *)
(* (possibly empty).                                                       *)
(***************************************************************************)
Raise == [kind |-> "raise"]
Frame(closes) == [kind |-> "frame", Close |-> closes]

(***************************************************************************)
(* app.py get_lohas_data (the body behind st.cache_data).  ret is the      *)
(* return value, msgs the st elements it shows.                            *)
(***************************************************************************)
get_lohas_data_app(f) ==
  IF f.kind = "raise" THEN [ret |-> None, msgs |-> {"error: download failed"}]
  ELSE IF f.Close = <<>> THEN [ret |-> None, msgs |-> {}]
  ELSE [ret |-> channel_columns(f.Close, 10, 20), msgs |-> {}]

\* app2.py get_lohas_data: the same computation, a bare except, no message
get_lohas_data_app2(f) ==
  IF f.kind = "raise" THEN [ret |-> None, msgs |-> {}]
  ELSE IF f.Close = <<>> THEN [ret |-> None, msgs |-> {}]
  ELSE [ret |-> channel_columns(f.Close, 10, 20), msgs |-> {}]

\* app4.py get_stock_data: the same channel, then get_technical_indicators
get_stock_data_app4(f) ==
  IF f.kind = "raise" THEN [ret |-> None, msgs |-> {}]
  ELSE IF f.Close = <<>> THEN [ret |-> None, msgs |-> {}]
  ELSE [ret |-> channel_columns(f.Close, 10, 20), msgs |-> {}]

(***************************************************************************)
(* app3.py get_stock_data.                                                 *)
(***************************************************************************)
\* df.resample(...).agg({'Close': 'last', ...}).dropna(): the last close of
\* every bin of `rows` consecutive trading rows
resample_last(closes, rows) ==
  LET n == Len(closes)
      bins == (n + rows - 1) \div rows
  IN [j \in 1..bins |-> closes[IF j * rows < n THEN j * rows ELSE n]]

resample(closes, time_frame) ==
  CASE time_frame = "W" -> resample_last(closes, WeekRows)
    [] time_frame = "M" -> resample_last(closes, MonthRows)
    [] OTHER -> closes

ma_periods(time_frame) ==
  CASE time_frame = "D" -> <<5, 10, 20, 60, 120>>
    [] time_frame = "W" -> <<4, 13, 26, 52, 104>>
    [] time_frame = "M" -> <<3, 6, 12, 24, 48, 96>>

\* the columns yf.download returns; a column MA{p} is <<"MA", p>>
BaseColumns ==
  {<<"Open", 0>>, <<"High", 0>>, <<"Low", 0>>, <<"Close", 0>>, <<"Volume", 0>>}

\* the columns one pass of the loop body reads: f'MA{3}', f'MA{3}_slope',
\* f'MA{0}', f'MA{0}_slope' are the literal names MA3, MA3_slope, MA0, MA0_slope
SignalColumns ==
  {<<"MA", 3>>, <<"MA_slope", 3>>, <<"MA", 0>>, <<"MA_slope", 0>>,
   <<"Close", 0>>, <<"Open", 0>>}

\* for p in ma_periods: add MA{p}, MA{p}_slope, then build sell_signal and
\* buy_signal; reading a missing column raises KeyError
RECURSIVE ma_loop_raises(_, _)
ma_loop_raises(columns, periods) ==
  IF periods = <<>> THEN FALSE
  ELSE LET p == Head(periods)
           added == columns \cup {<<"MA", p>>, <<"MA_slope", p>>}
       IN IF ~(SignalColumns \subseteq added) THEN TRUE
          ELSE ma_loop_raises(
                 added \cup {<<"sell_signal", 0>>, <<"buy_signal", 0>>},
                 Tail(periods))

Abs(a) == IF a < 0 THEN 0 - a ELSE a

RECURSIVE GCD(_, _)
GCD(a, b) == IF b = 0 THEN (IF a = 0 THEN 1 ELSE Abs(a)) ELSE GCD(Abs(b), Abs(a) % Abs(b))

\* np.linspace(0.3, 1.0, n) ** 2 handed to np.polyfit(x, y, 1, w=w), which
\* minimises sum((w*(y - fit))^2): the least-squares weight of row i is
\* linspace[i]^4, proportional to (3(n-1) + 7i)^4.  One row: the minimum-norm
\* solution slope 0, intercept y.  The slope num/d is reduced to lowest terms
\* to keep the integers small; they stay within 32 bits for frames of at
\* most two rows.
polyfit_weighted(x, y) ==
  LET n == Len(x)
      L == [i \in 1..n |-> 3 * (n - 1) + 7 * x[i]]
      W == [i \in 1..n |-> L[i] * L[i] * L[i] * L[i]]
      SW == SeqSum(W)
      SWx == Dot(W, x)
      SWy == Dot(W, y)
      SWxx == Dot(W, [i \in 1..n |-> x[i] * x[i]])
      SWxy == Dot(W, [i \in 1..n |-> x[i] * y[i]])
      g == GCD(SW * SWxx - SWx * SWx, SW * SWxy - SWx * SWy)
      d == (SW * SWxx - SWx * SWx) \div g
      num == (SW * SWxy - SWx * SWy) \div g
  IN IF n = 1 THEN [den |-> 1, slope |-> 0, intercept |-> y[1], nan |-> FALSE]
     ELSE [den |-> SW * d, slope |-> SW * num,
           intercept |-> SWy * d - num * SWx, nan |-> FALSE]

\* the weighted R^2 of the weekly fit:
\*   1 - sum(w * (y - y_hat)**2) / sum(w * (y - np.average(y, weights=w))**2)
\* with w = linspace ** 2, proportional to (3(n-1) + 7i)^2.  ss_res is at
\* scale fit.den^2, ss_tot at scale sum(w)^2.  A zero ss_tot divides by zero:
\* 0/0 is NaN, a positive ss_res over 0 is inf.
r_squared_weighted(x, y, fit) ==
  LET n == Len(x)
      w == [i \in 1..n |-> (3 * (n - 1) + 7 * x[i]) * (3 * (n - 1) + 7 * x[i])]
      S == SeqSum(w)
      res == [i \in 1..n |-> fit.den * y[i] - (fit.slope * x[i] + fit.intercept)]
      ss_res == SeqSum([i \in 1..n |-> w[i] * res[i] * res[i]])
      dev == [i \in 1..n |-> S * y[i] - Dot(w, y)]
      ss_tot == SeqSum([i \in 1..n |-> w[i] * dev[i] * dev[i]])
  IN IF ss_tot = 0 THEN (IF ss_res = 0 THEN [kind |-> "nan"]
                                       ELSE [kind |-> "-inf"])
     ELSE IF ss_res = 0 THEN [kind |-> "number", num |-> 1, den |-> 1]
     ELSE [kind |-> "number",
           num |-> ss_tot * fit.den * fit.den - ss_res * S * S,
           den |-> ss_tot * fit.den * fit.den]

\* r_squared of the (resampled) frame
r_squared_app3(closes, time_frame) ==
  IF time_frame = "W"
  THEN r_squared_weighted(arange(Len(closes)), closes,
                          polyfit_weighted(arange(Len(closes)), closes))
  ELSE r_squared_linregress(arange(Len(closes)), closes)

\* sd_multipliers with the weekly pair for the monthly frame too
sd_multipliers_weekly_for_month(time_frame) ==
  CASE time_frame = "D" -> <<10, 20>>
    [] time_frame = "W" -> <<12, 24>>
    [] time_frame = "M" -> <<12, 24>>

\* sd1, sd2 by time frame, times ten
sd_multipliers(time_frame) ==
  CASE time_frame = "D" -> <<10, 20>>
    [] time_frame = "W" -> <<12, 24>>
    [] time_frame = "M" -> <<15, 30>>

\* the trend line of the (resampled) frame: weighted for the weekly frame
trend_fit_app3(closes, time_frame) ==
  IF time_frame = "W" THEN polyfit_weighted(arange(Len(closes)), closes)
                      ELSE linregress(arange(Len(closes)), closes)

\* the channel of the (resampled) frame: the trend line, the standard
\* deviation of the residuals and the four bands
channel_stage_app3(closes, time_frame) ==
  band_columns(closes, trend_fit_app3(closes, time_frame),
               sd_multipliers(time_frame)[1], sd_multipliers(time_frame)[2])

get_stock_data_app3(f, time_frame) ==
  IF f.kind = "raise" THEN [ret |-> None, msgs |-> {}]
  ELSE IF f.Close = <<>> THEN [ret |-> None, msgs |-> {}]
  ELSE IF ma_loop_raises(BaseColumns, ma_periods(time_frame))
       THEN [ret |-> None, msgs |-> {}]      \* KeyError, except: return None
       ELSE [ret |-> channel_stage_app3(resample(f.Close, time_frame), time_frame),
             msgs |-> {}]

(***************************************************************************)
(* The classifiers.  A row is the last row of a result, df[...].iloc[-1].  *)
(* A comparison with NaN is false.  Labels, in the order of the source:    *)
(*   app.py:  "overheated" (above +2SD), "relatively_high",                *)
(*            "bargain_zone" (below -2SD), "relatively_cheap";             *)
(*   app2/app3 view and app3 scan: "peak", "elevated", "fair", "low",      *)
(*            "bargain";                                                   *)
(*   app2 scan: "+2SD (peak)", "+1SD (elevated)", "TL (fair)",             *)
(*            "-1SD (low)", "-2SD (bargain)".                              *)
(* "unbound" is a name the chain never assigned.                           *)
(***************************************************************************)
last_row(r) ==
  LET n == Len(r.Close)
  IN [Close |-> r.Close[n], TL |-> r.TL[n], P2SD |-> r.P2SD[n],
      P1SD |-> r.P1SD[n], M1SD |-> r.M1SD[n], M2SD |-> r.M2SD[n],
      nan |-> r.nan]

gt(a, b, nan) == IF nan THEN FALSE ELSE a > b
lt(a, b, nan) == IF nan THEN FALSE ELSE a < b

\* status_app with the closing else left out: the name stays unbound
status_app_no_else(row) ==
  IF gt(row.Close, row.P2SD, row.nan) THEN "overheated"
  ELSE IF gt(row.Close, row.TL, row.nan) THEN "relatively_high"
  ELSE IF lt(row.Close, row.M2SD, row.nan) THEN "bargain_zone"
  ELSE IF gt(row.Close, row.M2SD, row.nan) THEN "relatively_cheap"
  ELSE "unbound"

\* status_app with >= for the trend-line test
status_app_ge_tl(row) ==
  IF gt(row.Close, row.P2SD, row.nan) THEN "overheated"
  ELSE IF ~lt(row.Close, row.TL, row.nan) THEN "relatively_high"
  ELSE IF lt(row.Close, row.M2SD, row.nan) THEN "bargain_zone"
  ELSE "relatively_cheap"

\* app.py, the status if / elif chain
status_app(row) ==
  IF gt(row.Close, row.P2SD, row.nan) THEN "overheated"
  ELSE IF gt(row.Close, row.TL, row.nan) THEN "relatively_high"
  ELSE IF lt(row.Close, row.M2SD, row.nan) THEN "bargain_zone"
  ELSE "relatively_cheap"

\* status_label_app2 with >= for the -1SD test
status_label_app2_ge_m1(row) ==
  IF gt(row.Close, row.P2SD, row.nan) THEN "peak"
  ELSE IF gt(row.Close, row.P1SD, row.nan) THEN "elevated"
  ELSE IF ~lt(row.Close, row.M1SD, row.nan) THEN "fair"
  ELSE IF gt(row.Close, row.M2SD, row.nan) THEN "low"
  ELSE "bargain"

\* app2.py, status_label of the single-ticker view
status_label_app2(row) ==
  IF gt(row.Close, row.P2SD, row.nan) THEN "peak"
  ELSE IF gt(row.Close, row.P1SD, row.nan) THEN "elevated"
  ELSE IF gt(row.Close, row.M1SD, row.nan) THEN "fair"
  ELSE IF gt(row.Close, row.M2SD, row.nan) THEN "low"
  ELSE "bargain"

\* app2.py, pos of a scan row
pos_app2(row) ==
  IF gt(row.Close, row.P2SD, row.nan) THEN "+2SD (peak)"
  ELSE IF gt(row.Close, row.P1SD, row.nan) THEN "+1SD (elevated)"
  ELSE IF gt(row.Close, row.M1SD, row.nan) THEN "TL (fair)"
  ELSE IF gt(row.Close, row.M2SD, row.nan) THEN "-1SD (low)"
  ELSE "-2SD (bargain)"

\* status_label_app3 with the +1SD and +2SD tests in the other order
status_label_app3_p1_first(row) ==
  IF gt(row.Close, row.P1SD, row.nan) THEN "elevated"
  ELSE IF gt(row.Close, row.P2SD, row.nan) THEN "peak"
  ELSE IF gt(row.Close, row.M1SD, row.nan) THEN "fair"
  ELSE IF gt(row.Close, row.M2SD, row.nan) THEN "low"
  ELSE "bargain"

\* app3.py, status_label of the single-ticker view
status_label_app3(row) ==
  IF gt(row.Close, row.P2SD, row.nan) THEN "peak"
  ELSE IF gt(row.Close, row.P1SD, row.nan) THEN "elevated"
  ELSE IF gt(row.Close, row.M1SD, row.nan) THEN "fair"
  ELSE IF gt(row.Close, row.M2SD, row.nan) THEN "low"
  ELSE "bargain"

\* app3.py, pos of a scan row
pos_app3(row) ==
  IF gt(row.Close, row.P2SD, row.nan) THEN "peak"
  ELSE IF gt(row.Close, row.P1SD, row.nan) THEN "elevated"
  ELSE IF gt(row.Close, row.M1SD, row.nan) THEN "fair"
  ELSE IF gt(row.Close, row.M2SD, row.nan) THEN "low"
  ELSE "bargain"

FourLabels == {"overheated", "relatively_high", "bargain_zone", "relatively_cheap"}
FiveLabels == {"peak", "elevated", "fair", "low", "bargain"}
ScanLabelsApp2 ==
  {"+2SD (peak)", "+1SD (elevated)", "TL (fair)", "-1SD (low)", "-2SD (bargain)"}

\* the band a label names, 5 (most expensive) down to 1 (cheapest)
band_of(label) ==
  CASE label \in {"peak", "+2SD (peak)"} -> 5
    [] label \in {"elevated", "+1SD (elevated)"} -> 4
    [] label \in {"fair", "TL (fair)"} -> 3
    [] label \in {"low", "-1SD (low)"} -> 2
    [] label \in {"bargain", "-2SD (bargain)"} -> 1
    [] OTHER -> 0

(***************************************************************************)
(* The frames and download outcomes the function harness draws.            *)
(***************************************************************************)
RECURSIVE SeqsUpTo(_, _)
SeqsUpTo(S, n) ==
  IF n = 0 THEN {<<>>}
  ELSE LET shorter == SeqsUpTo(S, n - 1)
       IN shorter \cup {Append(s, v) : s \in {q \in shorter : Len(q) = n - 1}, v \in S}

HarnessFrames == SeqsUpTo(1..MaxPrice, MaxLen)
HarnessDownloads == {Raise} \cup {Frame(c) : c \in HarnessFrames}

Pending == [kind |-> "pending"]
Returned(r) == [kind |-> "returned", ret |-> r.ret, msgs |-> r.msgs]

\* the session variables while a function harness runs
Tickers == {"A", "B"}
\* outside the login gate: no account, no spreadsheet of several worksheets
NoAccount == [kind |-> "none"]
NoBook == [title \in {} |-> <<>>]

SessionIdle ==
  /\ watchlist = <<>>
  /\ market = [t \in Tickers |-> Frame(<<>>)]
  /\ cache = [t \in Tickers |-> [kind |-> "miss"]]
  /\ screen = [kind |-> "blank"]
  /\ sheet = <<>>
  /\ account = NoAccount
  /\ book = NoBook

(***************************************************************************)
(* SpecChannel: the channel function of each program applied to one        *)
(* download outcome.                                                       *)
(***************************************************************************)
InitChannel ==
  /\ variant \in Variants
  /\ fin \in [download : HarnessDownloads, time_frame : TimeFrames]
  /\ fout = Pending
  /\ SessionIdle

CallGetLohasDataApp ==
  /\ variant = "app" /\ fout = Pending
  /\ fout' = Returned(get_lohas_data_app(fin.download))
  /\ UNCHANGED <<variant, fin, watchlist, market, cache, screen, sheet, account, book>>

CallGetLohasDataApp2 ==
  /\ variant = "app2" /\ fout = Pending
  /\ fout' = Returned(get_lohas_data_app2(fin.download))
  /\ UNCHANGED <<variant, fin, watchlist, market, cache, screen, sheet, account, book>>

CallGetStockDataApp3 ==
  /\ variant = "app3" /\ fout = Pending
  /\ fout' = Returned(get_stock_data_app3(fin.download, fin.time_frame))
  /\ UNCHANGED <<variant, fin, watchlist, market, cache, screen, sheet, account, book>>

CallGetStockDataApp4 ==
  /\ variant = "app4" /\ fout = Pending
  /\ fout' = Returned(get_stock_data_app4(fin.download))
  /\ UNCHANGED <<variant, fin, watchlist, market, cache, screen, sheet, account, book>>

NextChannel ==
  \/ CallGetLohasDataApp
  \/ CallGetLohasDataApp2
  \/ CallGetStockDataApp3
  \/ CallGetStockDataApp4

SpecChannel == InitChannel /\ [][NextChannel]_vars

(***************************************************************************)
(* SpecBands: the part of each channel function that computes the trend    *)
(* line, the standard deviation and the bands, applied to one frame of     *)
(* closes; for app3 the frame is the resampled one and the MA / signal     *)
(* loop is left out.  The weighted weekly fit is exact in 32-bit integers  *)
(* for frames of one or two rows only, so weekly frames are that short.    *)
(***************************************************************************)
BandFrames(time_frame) ==
  IF time_frame = "W" THEN {f \in HarnessFrames : Len(f) \in {1, 2}}
                      ELSE HarnessFrames \ {<<>>}

\* r_squared of a program that drops r_value
NotReported == [kind |-> "not reported"]

Columns(r, r_squared) == [kind |-> "columns", ret |-> r, r_squared |-> r_squared]

InitBands ==
  /\ variant \in Variants
  /\ fin \in {[closes |-> f, time_frame |-> t] :
                 f \in HarnessFrames \ {<<>>}, t \in TimeFrames}
  /\ fin.closes \in BandFrames(fin.time_frame)
  /\ fout = Pending
  /\ SessionIdle

BandsApp ==
  /\ variant = "app" /\ fout = Pending
  /\ fout' = Columns(channel_columns(fin.closes, 10, 20), NotReported)
  /\ UNCHANGED <<variant, fin, watchlist, market, cache, screen, sheet, account, book>>

BandsApp2 ==
  /\ variant = "app2" /\ fout = Pending
  /\ fout' = Columns(channel_columns(fin.closes, 10, 20), NotReported)
  /\ UNCHANGED <<variant, fin, watchlist, market, cache, screen, sheet, account, book>>

BandsApp3 ==
  /\ variant = "app3" /\ fout = Pending
  /\ fout' = Columns(channel_stage_app3(fin.closes, fin.time_frame),
                     r_squared_app3(fin.closes, fin.time_frame))
  /\ UNCHANGED <<variant, fin, watchlist, market, cache, screen, sheet, account, book>>

BandsApp4 ==
  /\ variant = "app4" /\ fout = Pending
  /\ fout' = Columns(channel_columns(fin.closes, 10, 20),
                     r_squared_linregress(arange(Len(fin.closes)), fin.closes))
  /\ UNCHANGED <<variant, fin, watchlist, market, cache, screen, sheet, account, book>>

NextBands ==
  \/ BandsApp
  \/ BandsApp2
  \/ BandsApp3
  \/ BandsApp4

SpecBands == InitBands /\ [][NextBands]_vars

(***************************************************************************)
(* SpecClassify: each classifier applied to one last row.                  *)
(***************************************************************************)
Levels == 0..MaxLevel
HarnessRows ==
  [Close : Levels, TL : Levels, P2SD : Levels, P1SD : Levels,
   M1SD : Levels, M2SD : Levels, nan : {FALSE}]
  \cup {[Close |-> 0, TL |-> 0, P2SD |-> 0, P1SD |-> 0, M1SD |-> 0,
         M2SD |-> 0, nan |-> TRUE]}

Labelled(by, label) == [kind |-> "label", by |-> by, label |-> label]

InitClassify ==
  /\ variant \in {"app", "app2", "app3"}
  /\ fin \in HarnessRows
  /\ fout = Pending
  /\ SessionIdle

ClassifyApp ==
  /\ variant = "app" /\ fout = Pending
  /\ fout' = Labelled("view", status_app(fin))
  /\ UNCHANGED <<variant, fin, watchlist, market, cache, screen, sheet, account, book>>

ClassifyApp2View ==
  /\ variant = "app2" /\ fout = Pending
  /\ fout' = Labelled("view", status_label_app2(fin))
  /\ UNCHANGED <<variant, fin, watchlist, market, cache, screen, sheet, account, book>>

ClassifyApp2Scan ==
  /\ variant = "app2" /\ fout = Pending
  /\ fout' = Labelled("scan", pos_app2(fin))
  /\ UNCHANGED <<variant, fin, watchlist, market, cache, screen, sheet, account, book>>

ClassifyApp3View ==
  /\ variant = "app3" /\ fout = Pending
  /\ fout' = Labelled("view", status_label_app3(fin))
  /\ UNCHANGED <<variant, fin, watchlist, market, cache, screen, sheet, account, book>>

ClassifyApp3Scan ==
  /\ variant = "app3" /\ fout = Pending
  /\ fout' = Labelled("scan", pos_app3(fin))
  /\ UNCHANGED <<variant, fin, watchlist, market, cache, screen, sheet, account, book>>

NextClassify ==
  \/ ClassifyApp
  \/ ClassifyApp2View
  \/ ClassifyApp2Scan
  \/ ClassifyApp3View
  \/ ClassifyApp3Scan

SpecClassify == InitClassify /\ [][NextClassify]_vars

(***************************************************************************)
(* The watchlist store of app2.py, app3.py, app4.py: a worksheet of rows of *)
(* cells, and the add / remove buttons that change the session's dict and   *)
(* save it.                                                                 *)
(***************************************************************************)
TickerInputs == Tickers \cup {""}       \* the text input may be left empty
NoCache == [k \in {} |-> None]          \* st.cache_data with no entry

\* st.cache_data storing a return value under a key
CachePut(c, key, entry) ==
  [k \in DOMAIN c \cup {key} |-> IF k = key THEN entry ELSE c[k]]

StoreVariants == {"app2", "app3", "app4"}
StoreNames == {"N", ""}                 \* the name input may be left empty

\* the order of Python's str comparison on the tickers of the model
ticker_rank(t) == CASE t = "" -> 0 [] t = "A" -> 1 [] t = "B" -> 2

\* sorted(watchlist_dict.items(), key=lambda x: x[0]); keys are distinct
RECURSIVE sorted_items(_)
sorted_items(w) ==
  IF w = <<>> THEN <<>>
  ELSE LET least == CHOOSE i \in 1..Len(w) :
                      \A j \in 1..Len(w) : ticker_rank(w[i].t) <= ticker_rank(w[j].t)
       IN <<w[least]>>
          \o sorted_items(SubSeq(w, 1, least - 1) \o SubSeq(w, least + 1, Len(w)))

\* data = [["ticker", "name"]] + [[t, n] for t, n in sorted_items]
sheet_data(w) ==
  <<(<<"ticker", "name">>)>> \o [i \in 1..Len(w) |-> <<sorted_items(w)[i].t, sorted_items(w)[i].n>>]

\* sheet.clear() without effect
sheet_clear_skipped(rows) == rows

\* sheet.clear(): every cell emptied, so get_all_values() has no row
sheet_clear(rows) == <<>>

\* sheet.update("A1", data): the cells of data overwrite the range that
\* starts at A1; rows below it keep their cells
sheet_update(rows, data) ==
  [i \in 1..(IF Len(rows) > Len(data) THEN Len(rows) ELSE Len(data)) |->
     IF i <= Len(data) THEN data[i] ELSE rows[i]]

\* where a save may fail: nowhere, at get_gsheet_client / open, at
\* sheet.clear(), at sheet.update(...)
Outages == {"none", "client", "clear", "update"}

\* save_watchlist_to_google without the assignment to st.session_state
save_watchlist_to_google_session_untouched(w, old_sheet, outage) ==
  CASE outage = "none" ->
         [sheet |-> sheet_update(sheet_clear(old_sheet), sheet_data(w)),
          watchlist |-> w, msgs |-> {}, saved |-> TRUE]
    [] outage = "update" ->
         [sheet |-> sheet_clear(old_sheet), watchlist |-> w,
          msgs |-> {"error: save failed"}, saved |-> FALSE]
    [] OTHER ->
         [sheet |-> old_sheet, watchlist |-> w,
          msgs |-> {"error: save failed"}, saved |-> FALSE]

\* save_watchlist_to_google(watchlist_dict): what it leaves in the worksheet
\* and in st.session_state.watchlist_dict, and the st.error it shows
save_watchlist_to_google(w, old_sheet, outage) ==
  CASE outage = "none" ->
         [sheet |-> sheet_update(sheet_clear(old_sheet), sheet_data(w)),
          watchlist |-> sorted_items(w), msgs |-> {}, saved |-> TRUE]
    [] outage = "update" ->
         [sheet |-> sheet_clear(old_sheet), watchlist |-> w,
          msgs |-> {"error: save failed"}, saved |-> FALSE]
    [] OTHER ->
         [sheet |-> old_sheet, watchlist |-> w,
          msgs |-> {"error: save failed"}, saved |-> FALSE]

keys(w) == {w[i].t : i \in 1..Len(w)}

\* del that drops the first entry, whatever its ticker
del_first_entry(w, t) == Tail(w)

\* del watchlist_dict[t]
del(w, t) == SelectSeq(w, LAMBDA item : item.t # t)

\* the watchlists a session starts with: loaded from a saved worksheet, so
\* sorted, not empty and without an empty ticker
StoreWatchlists ==
  {w \in SeqsUpTo([t : Tickers, n : StoreNames], Cardinality(Tickers)) :
     /\ w # <<>>
     /\ \A i, j \in 1..Len(w) : i < j => ticker_rank(w[i].t) < ticker_rank(w[j].t)}

\* what the last button did (history variable fout)
Pressed(button, ticker, name, before, save, refused) ==
  [kind |-> button, ticker |-> ticker, name |-> name, before |-> before,
   saved |-> save.saved, msgs |-> save.msgs, refused |-> refused]

InitStore ==
  /\ variant \in StoreVariants
  /\ fin = [kind |-> "none"]
  /\ fout = Pending
  /\ watchlist \in StoreWatchlists
  /\ sheet = sheet_data(watchlist)
  /\ market = [t \in Tickers |-> Frame(<<>>)]
  /\ cache = NoCache
  /\ screen = [kind |-> "blank"]
  /\ account = NoAccount
  /\ book = NoBook

\* the add button: drawn when ticker_input is not a key of the dict
add_pressed(w, old_sheet, ticker_input, name, outage) ==
  save_watchlist_to_google(Append(w, [t |-> ticker_input, n |-> name]),
                           old_sheet, outage)

AddPressed(ticker_input, name, outage) ==
  /\ variant \in StoreVariants
  /\ ticker_input \notin keys(watchlist)
  /\ watchlist' = add_pressed(watchlist, sheet, ticker_input, name, outage).watchlist
  /\ sheet' = add_pressed(watchlist, sheet, ticker_input, name, outage).sheet
  /\ fout' = Pressed("add", ticker_input, name, watchlist,
                     add_pressed(watchlist, sheet, ticker_input, name, outage),
                     FALSE)
  /\ UNCHANGED <<variant, fin, market, cache, screen, account, book>>

\* the remove button: drawn when ticker_input is a key of the dict; app2.py
\* deletes only if len(watchlist_dict) > 1
remove_refused(w) == variant = "app2" /\ ~(Len(w) > 1)

remove_pressed(w, old_sheet, ticker_input, outage) ==
  IF remove_refused(w)
  THEN [sheet |-> old_sheet, watchlist |-> w, msgs |-> {}, saved |-> FALSE]
  ELSE save_watchlist_to_google(del(w, ticker_input), old_sheet, outage)

RemovePressed(ticker_input, outage) ==
  /\ variant \in StoreVariants
  /\ ticker_input \in keys(watchlist)
  /\ watchlist' = remove_pressed(watchlist, sheet, ticker_input, outage).watchlist
  /\ sheet' = remove_pressed(watchlist, sheet, ticker_input, outage).sheet
  /\ fout' = Pressed("remove", ticker_input, "", watchlist,
                     remove_pressed(watchlist, sheet, ticker_input, outage),
                     remove_refused(watchlist))
  /\ UNCHANGED <<variant, fin, market, cache, screen, account, book>>

NextStore ==
  \/ \E t \in TickerInputs, n \in StoreNames, outage \in Outages :
       AddPressed(t, n, outage)
  \/ \E t \in TickerInputs, outage \in Outages : RemovePressed(t, outage)

SpecStore == InitStore /\ [][NextStore]_vars

(***************************************************************************)
(* The accounts: the login gate of app3.py and app4.py, the worksheets of  *)
(* the spreadsheet (one per user; app2.py has no login and keeps its list  *)
(* in the first worksheet), loading the watchlist at the start of a        *)
(* session, and add / remove / logout.  One action is one script run       *)
(* together with the rerun it asks for.                                    *)
(***************************************************************************)
Users == {"u1", "u2"}
Passwords == {"p1", "p2"}

\* the rows of the worksheet "users" (get_all_records: username, password)
users_sheet == {<<"u1", "p1">>, <<"u2", "p2">>}

\* what is typed into the login form: right pairs, a wrong password, the
\* built-in pair
LoginAttempts ==
  {<<"u1", "p1">>, <<"u2", "p2">>, <<"u1", "p2">>, <<"admin", "1234">>}

\* get_user_credentials(): the rows of the worksheet, or the built-in pair
\* when anything in the try raises
get_user_credentials(readable) ==
  IF readable THEN users_sheet ELSE {<<"admin", "1234">>}

\* default_dict; "A" stands for 2330.TW (app2.py lists three more tickers,
\* which the model's two tickers leave no room for)
default_dict == <<[t |-> "A", n |-> "N"]>>
\* the rows written into a new worksheet, without the default row
header_without_default == <<(<<"ticker", "name">>)>>

header_and_default == <<(<<"ticker", "name">>), (<<"A", "N">>)>>

\* sheet.get_all_values(): the rows down to the last one holding a value
RECURSIVE get_all_values(_)
get_all_values(rows) ==
  IF rows = <<>> THEN <<>>
  ELSE IF \A c \in 1..Len(rows[Len(rows)]) : rows[Len(rows)][c] = ""
       THEN get_all_values(SubSeq(rows, 1, Len(rows) - 1))
       ELSE rows

\* {row[0]: row[1] for row in records[1:] if row and row[0]}
rows_to_dict(records) ==
  LET body == SubSeq(records, 2, Len(records))
      kept == SelectSeq(body, LAMBDA row : row # <<>> /\ row[1] # "")
  IN [i \in 1..Len(kept) |-> [t |-> kept[i][1], n |-> kept[i][2]]]

\* where a load may fail: nowhere, at get_gsheet_client / open / worksheets,
\* at add_worksheet, at the update that fills the new worksheet, at reading
LoadOutages == {"none", "client", "add", "update", "read"}

\* the worksheet a session's watchlist lives in
worksheet_title(username) == IF variant = "app2" THEN "sheet1" ELSE username

\* load_watchlist_from_google: the dict it returns, the spreadsheet after
\* it, the st elements it shows; failed: it fell back because of an exception
load_watchlist_from_google(username, b, outage) ==
  LET title == worksheet_title(username)
      fallback(msgs) == [ret |-> default_dict, book |-> b, msgs |-> msgs, failed |-> TRUE]
  IN CASE outage = "client" ->
            fallback(IF variant = "app4" THEN {} ELSE {"error: load failed"})
       [] outage # "client" /\ variant = "app2" ->
            IF outage = "read" \/ title \notin DOMAIN b
            THEN fallback({"warning: default list"})
            ELSE [ret |-> IF Len(get_all_values(b[title])) > 1
                          THEN rows_to_dict(get_all_values(b[title]))
                          ELSE default_dict,
                  book |-> b, msgs |-> {}, failed |-> FALSE]
       [] outage # "client" /\ variant # "app2" /\ title \notin DOMAIN b ->
            IF outage = "add"
            THEN fallback(IF variant = "app4" THEN {} ELSE {"error: create failed"})
            ELSE IF outage = "update"
            THEN [ret |-> default_dict,
                  book |-> [k \in DOMAIN b \cup {title} |->
                              IF k = title THEN <<>> ELSE b[k]],
                  msgs |-> IF variant = "app4" THEN {} ELSE {"error: create failed"},
                  failed |-> TRUE]
            ELSE [ret |-> default_dict,
                  book |-> [k \in DOMAIN b \cup {title} |->
                              IF k = title THEN header_and_default ELSE b[k]],
                  msgs |-> IF variant = "app4" THEN {} ELSE {"toast: worksheet created"},
                  failed |-> FALSE]
       [] OTHER ->
            IF outage = "read"
            THEN fallback(IF variant = "app4" THEN {} ELSE {"error: load failed"})
            ELSE [ret |-> IF variant = "app4" \/ Len(get_all_values(b[title])) > 1
                          THEN rows_to_dict(get_all_values(b[title]))
                          ELSE default_dict,
                  book |-> b, msgs |-> {}, failed |-> FALSE]

\* st.session_state of a session: the keys authenticated / username and
\* whether the key watchlist_dict exists (its value is the variable
\* watchlist); load_failed remembers that the load fell back on an exception
SessionState(authenticated, username, has_watchlist, load_failed) ==
  [kind |-> "session", authenticated |-> authenticated, username |-> username,
   has_watchlist |-> has_watchlist, load_failed |-> load_failed]

\* a new browser session; app2.py has no gate, every session may run it
NewSessionState == SessionState(variant = "app2", "", FALSE, FALSE)

InitAccount ==
  /\ variant \in StoreVariants
  /\ fin = [kind |-> "none"]
  /\ fout = Pending
  /\ watchlist = <<>>
  /\ sheet = <<>>
  /\ market = [t \in Tickers |-> Frame(<<>>)]
  /\ cache = NoCache
  /\ screen = [kind |-> "blank"]
  /\ account = NewSessionState
  /\ book \in IF variant = "app2"
              THEN {[k \in {"sheet1"} |-> rows] :
                      rows \in {<<>>, sheet_data(<<[t |-> "B", n |-> ""]>>)}}
              ELSE {NoBook, [k \in {"u1"} |-> sheet_data(<<[t |-> "B", n |-> ""]>>)]}

\* `if 'watchlist_dict' not in st.session_state:` load it for the username
initialise(acc, w, b, outage) ==
  IF acc.has_watchlist
  THEN [account |-> acc, watchlist |-> w, book |-> b, msgs |-> {}]
  ELSE [account |-> SessionState(acc.authenticated, acc.username, TRUE,
                                 load_watchlist_from_google(acc.username, b, outage).failed),
        watchlist |-> load_watchlist_from_google(acc.username, b, outage).ret,
        book |-> load_watchlist_from_google(acc.username, b, outage).book,
        msgs |-> load_watchlist_from_google(acc.username, b, outage).msgs]

\* what a run left behind (history variable fout)
Opened(run) == [kind |-> "open", loaded |-> run.watchlist, msgs |-> run.msgs]
Submitted(user, pw, readable, ok, had_sheet, run) ==
  [kind |-> "login", user |-> user, pw |-> pw, readable |-> readable,
   ok |-> ok, had_sheet |-> had_sheet, loaded |-> run.watchlist,
   msgs |-> run.msgs]

\* app2.py: the first run of a session loads the watchlist
OpenApp2(outage) ==
  /\ variant = "app2" /\ ~account.has_watchlist
  /\ account' = initialise(account, watchlist, book, outage).account
  /\ watchlist' = initialise(account, watchlist, book, outage).watchlist
  /\ book' = initialise(account, watchlist, book, outage).book
  /\ fout' = Opened(initialise(account, watchlist, book, outage))
  /\ UNCHANGED <<variant, fin, market, cache, screen, sheet>>

\* the session state after a matching login: app3.py also deletes the key
\* watchlist_dict, app4.py does not
login_accepted(acc, user) ==
  SessionState(TRUE, user,
               IF variant = "app3" THEN FALSE ELSE acc.has_watchlist, FALSE)

\* the login form submitted: on a match the cache is cleared, the session
\* marked, and the rerun initialises the dashboard; else an error is shown
Login(user, pw, readable, outage) ==
  /\ variant \in {"app3", "app4"} /\ ~account.authenticated
  /\ IF <<user, pw>> \in get_user_credentials(readable)
     THEN /\ account' = initialise(login_accepted(account, user), watchlist, book, outage).account
          /\ watchlist' = initialise(login_accepted(account, user), watchlist, book, outage).watchlist
          /\ book' = initialise(login_accepted(account, user), watchlist, book, outage).book
          /\ fout' = Submitted(user, pw, readable, TRUE, user \in DOMAIN book,
                               initialise(login_accepted(account, user), watchlist, book, outage))
     ELSE /\ fout' = Submitted(user, pw, readable, FALSE, user \in DOMAIN book,
                               [watchlist |-> <<>>, msgs |-> {"error: wrong login"}])
          /\ UNCHANGED <<account, watchlist, book>>
  /\ cache' = NoCache
  /\ UNCHANGED <<variant, fin, market, screen, sheet>>

\* logout that only drops the key authenticated
logout_keeps_watchlist(acc) ==
  SessionState(FALSE, acc.username, acc.has_watchlist, acc.load_failed)

\* the logout button: every key of st.session_state is deleted
logout(acc) == SessionState(FALSE, "", FALSE, FALSE)

Logout ==
  /\ variant \in {"app3", "app4"} /\ account.authenticated
  /\ account' = logout(account)
  /\ watchlist' = IF logout(account).has_watchlist THEN watchlist ELSE <<>>
  /\ cache' = NoCache
  /\ fout' = [kind |-> "logout"]
  /\ UNCHANGED <<variant, fin, market, screen, sheet, book>>

\* the worksheet rows a save starts from, and the spreadsheet after it; a
\* missing worksheet makes worksheet(username) raise before anything is done
save_to_book(w, b, title, outage) ==
  IF title \in DOMAIN b
  THEN save_watchlist_to_google(w, b[title], outage)
  ELSE save_watchlist_to_google(w, <<>>, "client")

book_after(b, title, save) ==
  IF title \in DOMAIN b THEN [b EXCEPT ![title] = save.sheet] ELSE b

\* the saves of this specification meet no outage (SpecStore has them all);
\* a save still fails when the user's worksheet does not exist
AccountOutages == {"none"}

\* what add / remove can type: one name per ticker
AccountEntries == {<<"A", "N">>, <<"B", "">>, <<"", "N">>}

AddEntry(ticker_input, name, outage) ==
  /\ account.authenticated /\ account.has_watchlist
  /\ <<ticker_input, name>> \in AccountEntries
  /\ ticker_input \notin keys(watchlist)
  /\ watchlist' = save_to_book(Append(watchlist, [t |-> ticker_input, n |-> name]),
                               book, worksheet_title(account.username), outage).watchlist
  /\ book' = book_after(book, worksheet_title(account.username),
                        save_to_book(Append(watchlist, [t |-> ticker_input, n |-> name]),
                                     book, worksheet_title(account.username), outage))
  /\ fout' = Pressed("add", ticker_input, name, watchlist,
                     save_to_book(Append(watchlist, [t |-> ticker_input, n |-> name]),
                                  book, worksheet_title(account.username), outage),
                     FALSE)
  /\ UNCHANGED <<variant, fin, market, cache, screen, sheet, account>>

remove_entry(w, b, title, ticker_input, outage) ==
  IF remove_refused(w)
  THEN [sheet |-> IF title \in DOMAIN b THEN b[title] ELSE <<>>,
        watchlist |-> w, msgs |-> {}, saved |-> FALSE]
  ELSE save_to_book(del(w, ticker_input), b, title, outage)

RemoveEntry(ticker_input, outage) ==
  /\ account.authenticated /\ account.has_watchlist
  /\ ticker_input \in keys(watchlist)
  /\ watchlist' = remove_entry(watchlist, book, worksheet_title(account.username),
                               ticker_input, outage).watchlist
  /\ book' = book_after(book, worksheet_title(account.username),
                        remove_entry(watchlist, book, worksheet_title(account.username),
                                     ticker_input, outage))
  /\ fout' = Pressed("remove", ticker_input, "", watchlist,
                     remove_entry(watchlist, book, worksheet_title(account.username),
                                  ticker_input, outage),
                     remove_refused(watchlist))
  /\ UNCHANGED <<variant, fin, market, cache, screen, sheet, account>>

\* the browser session ends and a new one starts with an empty state
NewSession ==
  /\ account # NewSessionState
  /\ account' = NewSessionState
  /\ watchlist' = <<>>
  /\ fout' = [kind |-> "new session"]
  /\ UNCHANGED <<variant, fin, market, cache, screen, sheet, book>>

NextAccount ==
  \/ \E outage \in LoadOutages : OpenApp2(outage)
  \/ \E attempt \in LoginAttempts, readable \in BOOLEAN, outage \in LoadOutages :
       Login(attempt[1], attempt[2], readable, outage)
  \/ Logout
  \/ \E t \in TickerInputs, n \in StoreNames, outage \in AccountOutages :
       AddEntry(t, n, outage)
  \/ \E t \in TickerInputs, outage \in AccountOutages : RemoveEntry(t, outage)
  \/ NewSession

SpecAccount == InitAccount /\ [][NextAccount]_vars

(***************************************************************************)
(* Two sessions of app3.py in one server process.  Each session's script   *)
(* run is a thread of its own and st.cache_data is shared by all of them,  *)
(* so a run is two steps here: the sidebar (widgets read, cache cleared,   *)
(* download settings chosen) and the call of get_stock_data.               *)
(***************************************************************************)
Sessions == {"s1", "s2"}
SharedTickers == {"A"}
SharedTimeFrames == {"D", "W"}

\* auto_adjust, actions, repair as the sidebar sets them from the toggle
download_settings(use_adjusted_price) ==
  [auto_adjust |-> use_adjusted_price, actions |-> use_adjusted_price,
   repair |-> use_adjusted_price]

Idle == [pc |-> "idle"]
AtCall(ticker, time_frame, use_adjusted_price) ==
  [pc |-> "call", ticker |-> ticker, time_frame |-> time_frame,
   settings |-> download_settings(use_adjusted_price)]

NothingReceived == [kind |-> "none"]

\* an entry of the cache: the value the body returned and, as history, the
\* settings and time frame of the download it was computed from
Entry(ret, settings, time_frame) ==
  [ret |-> ret, made_with |-> settings, time_frame |-> time_frame]

InitShared ==
  /\ variant = "app3"
  /\ fin = [s \in Sessions |-> Idle]
  /\ fout = [s \in Sessions |-> NothingReceived]
  /\ watchlist = <<>>
  /\ market \in [Tickers -> {Frame(<<>>), Frame(<<1, 2, 3>>)}]
  /\ cache = NoCache
  /\ screen = [kind |-> "blank"]
  /\ sheet = <<>>
  /\ account = NoAccount
  /\ book = NoBook

\* the sidebar of a run: both branches of the toggle clear the whole cache
Sidebar(s, ticker, time_frame, use_adjusted_price) ==
  /\ fin[s].pc = "idle"
  /\ fin' = [fin EXCEPT ![s] = AtCall(ticker, time_frame, use_adjusted_price)]
  /\ cache' = NoCache
  /\ UNCHANGED <<variant, fout, watchlist, market, screen, sheet, account, book>>

\* get_stock_data(ticker_input, years_input, time_frame) behind
\* st.cache_data: the key holds no download setting
shared_call(c, run) ==
  IF <<run.ticker, run.time_frame>> \in DOMAIN c
  THEN [out |-> c[<<run.ticker, run.time_frame>>], cache |-> c]
  ELSE [out |-> Entry(get_stock_data_app3(market[run.ticker], run.time_frame).ret,
                      run.settings, run.time_frame),
        cache |-> CachePut(c, <<run.ticker, run.time_frame>>,
                           Entry(get_stock_data_app3(market[run.ticker], run.time_frame).ret,
                                 run.settings, run.time_frame))]

Received(run, entry) ==
  [kind |-> "received", settings |-> run.settings, time_frame |-> run.time_frame,
   entry |-> entry]

Call(s) ==
  /\ fin[s].pc = "call"
  /\ cache' = shared_call(cache, fin[s]).cache
  /\ fout' = [fout EXCEPT ![s] = Received(fin[s], shared_call(cache, fin[s]).out)]
  /\ fin' = [fin EXCEPT ![s] = Idle]
  /\ UNCHANGED <<variant, watchlist, market, screen, sheet, account, book>>

NextShared ==
  \/ \E s \in Sessions, t \in SharedTickers, tf \in SharedTimeFrames,
        adj \in BOOLEAN : Sidebar(s, t, tf, adj)
  \/ \E s \in Sessions : Call(s)

SpecShared == InitShared /\ [][NextShared]_vars

(***************************************************************************)
(* The session: a browser session of one of the four scripts.  Every user  *)
(* interaction reruns the whole script; one action is one script run.      *)
(***************************************************************************)
Names == {"N"}

\* the frames the gateway may hold for a ticker: none (unknown ticker), one
\* row, a linear series, a series ending above +1SD, one ending below -1SD
\* and a fallen series whose trend line ends at exactly 0
Quotes ==
  {Frame(<<>>), Frame(<<2>>), Frame(<<1, 2, 3>>),
   Frame(<<1, 1, 1, 2>>), Frame(<<2, 2, 2, 1>>), Frame(<<6, 1, 1, 1, 1>>)}

\* insertion-ordered dicts over Tickers
Watchlists ==
  {w \in SeqsUpTo([t : Tickers, n : Names], Cardinality(Tickers)) :
     \A i, j \in 1..Len(w) : w[i].t = w[j].t => i = j}

\* the sessions explored: what the gateway holds (every quote for "A", no
\* data or a rising series for "B") and the watchlist loaded at start
Markets ==
  {m \in [Tickers -> Quotes] :
     m["B"] \in {Frame(<<>>), Frame(<<1, 1, 1, 2>>)}}
LoadedWatchlists == {w \in Watchlists : w = <<>> \/ w[1].t = "A"}

\* yf.download(ticker, ...): the gateway's frame, or an exception; failing is
\* the set of tickers whose download raises during the run
download(ticker, failing) ==
  IF ticker \in failing THEN Raise
  ELSE IF ticker = "" THEN Frame(<<>>)
  ELSE market[ticker]

\* the body of the cached function of the running program
function_body(f, time_frame) ==
  CASE variant = "app" -> get_lohas_data_app(f)
    [] variant = "app2" -> get_lohas_data_app2(f)
    [] variant = "app3" -> get_stock_data_app3(f, time_frame)
    [] variant = "app4" -> get_stock_data_app4(f)

\* the wrapper of st.cache_data storing the value the body returned
cache_store(c, key, out) ==
  [out |-> out, cache |-> CachePut(c, key, out), fetched |-> TRUE]

\* what the gateway handed to a call: nothing when the call was answered from
\* the cache
NotFetched == [kind |-> "not fetched"]
gateway_outcome(call, f) == IF call.fetched THEN f ELSE NotFetched

\* @st.cache_data(ttl=3600): a stored return value (None included) is handed
\* back without running the body; otherwise the body runs and its return
\* value is stored.  Yields the call's outcome and the cache after it.
cached_call(c, ticker, time_frame, failing) ==
  IF <<ticker, time_frame>> \in DOMAIN c
  THEN [out |-> c[<<ticker, time_frame>>], cache |-> c, fetched |-> FALSE]
  ELSE cache_store(c, <<ticker, time_frame>>,
                   function_body(download(ticker, failing), time_frame))

\* round(num/den * 10^-decimals) as Python's fixed formatting does it (half to
\* even); unit is 10 or 100.  A zero divisor gives inf or nan, as numpy does.
format_fixed(num, den, nan, unit) ==
  IF nan \/ (den = 0 /\ num = 0) THEN [kind |-> "nan"]
  ELSE IF den = 0 THEN [kind |-> "inf", negative |-> (num < 0)]
  ELSE LET N == (IF den < 0 THEN 0 - num ELSE num) * unit
           D == IF den < 0 THEN 0 - den ELSE den
           q == N \div D
           r == N % D
       IN [kind |-> "number",
           v |-> IF 2 * r > D THEN q + 1
                 ELSE IF 2 * r = D THEN q + (q % 2)
                 ELSE q]

\* ((current_price - last_tl) / last_tl) * 100, unformatted
dist_pct(row) ==
  [num |-> (row.Close - row.TL) * 100, den |-> row.TL, nan |-> row.nan]

NoView == [kind |-> "none"]
NoScan == [kind |-> "none"]

\* the metrics of the single-ticker view
view_of(r, status) ==
  [kind |-> "view", status |-> status, dist_pct |-> dist_pct(last_row(r)),
   dist |-> LET d == dist_pct(last_row(r)) IN format_fixed(d.num, d.den, d.nan, 100),
   closes |-> r.closes]

\* summary_row with the distance taken relative to the price, not to TL
summary_row_vs_price(item, r, pos) ==
  LET row == last_row(r)
  IN [ticker |-> item.t, name |-> item.n,
      price |-> format_fixed(r.closes[Len(r.closes)], 1, r.nan, 10),
      dist |-> format_fixed((row.Close - row.TL) * 100, row.Close, row.nan, 10),
      pos |-> pos]

\* one summary row of a scan
summary_row(item, r, pos) ==
  LET row == last_row(r)
  IN [ticker |-> item.t, name |-> item.n,
      price |-> format_fixed(r.closes[Len(r.closes)], 1, r.nan, 10),
      dist |-> format_fixed((row.Close - row.TL) * 100, row.TL, row.nan, 10),
      pos |-> pos]

\* the body of the scan loop after the call: `if res:` classify and append a
\* row.  log keeps what the function returned for each ticker, in order.
scan_append(acc, item, res) ==
  [rows |-> IF res.kind = "result"
            THEN Append(acc.rows,
                   summary_row(item, res,
                     IF variant = "app2" THEN pos_app2(last_row(res))
                                         ELSE pos_app3(last_row(res))))
            ELSE acc.rows,
   log |-> Append(acc.log, [ticker |-> item.t, ret |-> res])]

\* for t, name in watchlist_dict.items(): res = f(t, ...); ...
RECURSIVE scan_loop(_, _, _, _, _)
scan_iteration(items, call, time_frame, failing, acc) ==
  scan_loop(Tail(items), call.cache, time_frame, failing,
            scan_append(acc, Head(items), call.out.ret))

scan_loop(items, c, time_frame, failing, acc) ==
  IF items = <<>> THEN [rows |-> acc.rows, log |-> acc.log, cache |-> c]
  ELSE scan_iteration(items, cached_call(c, Head(items).t, time_frame, failing),
                      time_frame, failing, acc)

NoRows == [rows |-> <<>>, log |-> <<>>]

Scanned(s) == [kind |-> "scan", rows |-> s.rows, log |-> s.log]

\* the scan button can be pressed only if the last run drew it
scan_button_drawn ==
  /\ screen.kind = "run"
  /\ variant = "app2" => screen.view.kind = "view"

Rendered(ticker, time_frame, view, msgs, scan) ==
  [kind |-> "run", ticker |-> ticker, time_frame |-> time_frame,
   view |-> view, msgs |-> msgs, scan |-> scan]

\* a run's screen together with what the gateway handed to the call for the
\* selected ticker (fetched is a history field: the screen does not show it)
WithFetch(run, fetched) ==
  [screen |-> [kind |-> "run", ticker |-> run.screen.ticker,
               time_frame |-> run.screen.time_frame, view |-> run.screen.view,
               msgs |-> run.screen.msgs, scan |-> run.screen.scan,
               fetched |-> fetched],
   cache |-> run.cache]

Init ==
  /\ variant \in Variants
  /\ fin = [kind |-> "none"]
  /\ fout = Pending
  /\ watchlist \in IF variant = "app" THEN {<<>>} ELSE LoadedWatchlists
  /\ market \in Markets
  /\ cache = NoCache
  /\ screen = [kind |-> "blank"]
  /\ sheet = IF variant = "app" THEN <<>> ELSE sheet_data(watchlist)
  /\ account = NoAccount
  /\ book = NoBook

\* app.py from `result = get_lohas_data(...)` on: the view, or the warning
script_app(ticker_input, call) ==
  [screen |->
     IF call.out.ret.kind = "result"
     THEN Rendered(ticker_input, "D",
            view_of(call.out.ret, status_app(last_row(call.out.ret))),
            call.out.msgs, NoScan)
     ELSE Rendered(ticker_input, "D", NoView,
            call.out.msgs \cup {"warning: no data found"}, NoScan),
   cache |-> call.cache]

\* app.py, one run of the script
RunApp(ticker_input, failing) ==
  /\ variant = "app"
  /\ LET run == IF ticker_input = ""
                THEN WithFetch([screen |-> Rendered(ticker_input, "D", NoView,
                                                    {}, NoScan),
                                cache |-> cache], NotFetched)
                ELSE WithFetch(
                       script_app(ticker_input,
                         cached_call(cache, ticker_input, "D", failing)),
                       gateway_outcome(
                         cached_call(cache, ticker_input, "D", failing),
                         download(ticker_input, failing)))
     IN screen' = run.screen /\ cache' = run.cache
  /\ UNCHANGED <<variant, fin, fout, watchlist, market, sheet, account, book>>

\* app2.py from `result = get_lohas_data(...)` on: the view and, inside
\* `if result:`, the scan button: st.cache_data.clear(), then the loop (scan
\* is the loop run on the cleared cache)
script_app2(ticker_input, press_scan, call, scan) ==
  IF call.out.ret.kind = "result"
  THEN [screen |->
          Rendered(ticker_input, "D",
            view_of(call.out.ret, status_label_app2(last_row(call.out.ret))),
            call.out.msgs,
            IF press_scan THEN Scanned(scan) ELSE NoScan),
        cache |-> IF press_scan THEN scan.cache ELSE call.cache]
  ELSE [screen |-> Rendered(ticker_input, "D", NoView, call.out.msgs, NoScan),
        cache |-> call.cache]

\* app2.py, one run of the script (neither add nor remove pressed)
RunApp2(ticker_input, press_scan, failing) ==
  /\ variant = "app2"
  /\ press_scan => scan_button_drawn
  /\ LET run == IF ticker_input = ""
                THEN WithFetch([screen |-> Rendered(ticker_input, "D", NoView,
                                                    {}, NoScan),
                                cache |-> cache], NotFetched)
                ELSE WithFetch(
                       script_app2(ticker_input, press_scan,
                         cached_call(cache, ticker_input, "D", failing),
                         scan_loop(watchlist, NoCache, "D", failing, NoRows)),
                       gateway_outcome(
                         cached_call(cache, ticker_input, "D", failing),
                         download(ticker_input, failing)))
     IN screen' = run.screen /\ cache' = run.cache
  /\ UNCHANGED <<variant, fin, fout, watchlist, market, sheet, account, book>>

\* app3.py, what a run renders: the view if there is a result, the scan if
\* its button was pressed
render_app3(ticker_input, time_frame, press_scan, call, scan) ==
  [screen |->
     Rendered(ticker_input, time_frame,
       IF call.out.ret.kind = "result"
       THEN view_of(call.out.ret, status_label_app3(last_row(call.out.ret)))
       ELSE NoView,
       call.out.msgs,
       IF press_scan THEN Scanned(scan) ELSE NoScan),
   cache |-> IF press_scan THEN scan.cache ELSE call.cache]

\* app3.py from `result = get_stock_data(...)` on: the view, then the scan
\* loop on the cache the view's call left
script_app3(ticker_input, time_frame, press_scan, failing, call) ==
  render_app3(ticker_input, time_frame, press_scan, call,
              scan_loop(watchlist, call.cache, time_frame, failing, NoRows))

\* app3.py, one run of the script behind the login gate (no other button
\* pressed): the sidebar clears the cache in both branches of the
\* adjusted-price toggle, then the view, then the scan
RunApp3(ticker_input, time_frame, press_scan, failing) ==
  /\ variant = "app3"
  /\ press_scan => scan_button_drawn
  /\ LET run == WithFetch(
                  script_app3(ticker_input, time_frame, press_scan, failing,
                    cached_call(NoCache, ticker_input, time_frame, failing)),
                  gateway_outcome(
                    cached_call(NoCache, ticker_input, time_frame, failing),
                    download(ticker_input, failing)))
     IN screen' = run.screen /\ cache' = run.cache
  /\ UNCHANGED <<variant, fin, fout, watchlist, market, sheet, account, book>>

\* app4.py, what a run renders: the view shows the distance only, and the
\* scan button runs `pass`: it calls nothing, builds no row and leaves the
\* cache alone.  log is a history variable: yields is what get_stock_data
\* yields for each watchlist ticker at that point of the run.
render_app4(ticker_input, press_scan, call, yields) ==
  [screen |->
     Rendered(ticker_input, "D",
       IF call.out.ret.kind = "result" THEN view_of(call.out.ret, "not shown")
       ELSE NoView,
       call.out.msgs,
       IF press_scan THEN Scanned([rows |-> <<>>, log |-> yields.log])
       ELSE NoScan),
   cache |-> call.cache]

\* app4.py from `result = get_stock_data(...)` on
script_app4(ticker_input, press_scan, failing, call) ==
  render_app4(ticker_input, press_scan, call,
              scan_loop(watchlist, call.cache, "D", failing, NoRows))

\* app4.py, one run of the script behind the login gate
RunApp4(ticker_input, press_scan, failing) ==
  /\ variant = "app4"
  /\ press_scan => scan_button_drawn
  /\ LET run == WithFetch(
                  script_app4(ticker_input, press_scan, failing,
                    cached_call(cache, ticker_input, "D", failing)),
                  gateway_outcome(
                    cached_call(cache, ticker_input, "D", failing),
                    download(ticker_input, failing)))
     IN screen' = run.screen /\ cache' = run.cache
  /\ UNCHANGED <<variant, fin, fout, watchlist, market, sheet, account, book>>

\* the time-to-live of an entry runs out
Expire(key) ==
  /\ key \in DOMAIN cache
  /\ cache' = [k \in DOMAIN cache \ {key} |-> cache[k]]
  /\ UNCHANGED <<variant, fin, fout, watchlist, market, screen, sheet, account, book>>

Next ==
  \/ \E t \in TickerInputs, failing \in SUBSET Tickers : RunApp(t, failing)
  \/ \E t \in TickerInputs, press \in BOOLEAN, failing \in SUBSET Tickers :
       RunApp2(t, press, failing)
  \/ \E t \in TickerInputs, tf \in TimeFrames, press \in BOOLEAN,
        failing \in SUBSET Tickers : RunApp3(t, tf, press, failing)
  \/ \E t \in TickerInputs, press \in BOOLEAN, failing \in SUBSET Tickers :
       RunApp4(t, press, failing)
  \/ \E key \in TickerInputs \X TimeFrames : Expire(key)

Spec == Init /\ [][Next]_vars

(***************************************************************************)
(* Properties of the channel function (SpecChannel).                       *)
(***************************************************************************)
HasResult == fout.kind = "returned" /\ fout.ret.kind = "result"

\* C1: for every price series of length >= 2 and at every index i, the
\* returned columns satisfy TL-2SD[i] <= TL-1SD[i] <= TL[i] <= TL+1SD[i]
\* <= TL+2SD[i], in every program and every time frame.
C1_BandsOrdered ==
  (HasResult /\ Len(fout.ret.closes) >= 2) =>
    \A i \in 1..Len(fout.ret.TL) :
      /\ fout.ret.M2SD[i] <= fout.ret.M1SD[i]
      /\ fout.ret.M1SD[i] <= fout.ret.TL[i]
      /\ fout.ret.TL[i] <= fout.ret.P1SD[i]
      /\ fout.ret.P1SD[i] <= fout.ret.P2SD[i]

\* a result over at least three closes whose bands are strictly apart
C1_Witness ==
  /\ HasResult /\ Len(fout.ret.closes) >= 3 /\ fout.ret.std > 0
  /\ fout.ret.M2SD[1] < fout.ret.M1SD[1] /\ fout.ret.P1SD[1] < fout.ret.P2SD[1]

\* C6: for every downloaded frame of at least 2 closes the channel function
\* returns a result holding the trend line and the four bands; None comes
\* only from a failed or empty download or a frame shorter than 2, in every
\* program and every time frame.
C6_ResultForEveryFrame ==
  (fout.kind = "returned" /\ fin.download.kind = "frame"
     /\ Len(fin.download.Close) >= 2)
  => fout.ret.kind = "result"

\* C7: for an empty or single-point series the channel function yields the
\* error outcome, never a result whose slope, trend or bands are NaN.
C7_NoResultBelowTwoPoints ==
  (fout.kind = "returned" /\ fin.download.kind = "frame"
     /\ Len(fin.download.Close) <= 1)
  => (fout.ret.kind = "None")

(***************************************************************************)
(* Properties of the classifiers (SpecClassify).                           *)
(***************************************************************************)
Ordered(row) ==
  /\ ~row.nan
  /\ row.M2SD <= row.M1SD /\ row.M1SD <= row.TL
  /\ row.TL <= row.P1SD /\ row.P1SD <= row.P2SD

StrictlyOrdered(row) ==
  /\ ~row.nan
  /\ row.M2SD < row.M1SD /\ row.M1SD < row.TL
  /\ row.TL < row.P1SD /\ row.P1SD < row.P2SD

FiveLevelView == fout.kind = "label" /\ variant \in {"app2", "app3"} /\ fout.by = "view"

\* C2: the five-level classifier maps the latest price p as p > +2SD -> peak;
\* +1SD < p <= +2SD -> elevated; -1SD < p <= +1SD -> fair;
\* -2SD < p <= -1SD -> low; p <= -2SD -> bargain, for every p and every
\* ordered threshold tuple.
C2_FiveLevelScheme ==
  (FiveLevelView /\ Ordered(fin)) =>
    /\ (fin.Close > fin.P2SD) => fout.label = "peak"
    /\ (fin.P1SD < fin.Close /\ fin.Close <= fin.P2SD) => fout.label = "elevated"
    /\ (fin.M1SD < fin.Close /\ fin.Close <= fin.P1SD) => fout.label = "fair"
    /\ (fin.M2SD < fin.Close /\ fin.Close <= fin.M1SD) => fout.label = "low"
    /\ (fin.Close <= fin.M2SD) => fout.label = "bargain"

\* app3 labels a price between +1SD and +2SD
C2_Witness ==
  /\ FiveLevelView /\ variant = "app3" /\ Ordered(fin) /\ fin.M2SD < fin.TL
  /\ fin.P1SD < fin.Close /\ fin.Close < fin.P2SD /\ fout.label = "elevated"

\* C3: classification is total and single-valued: for every latest price and
\* every threshold tuple (degenerate ones included) the chain of app.py binds
\* one of its four labels and the chains of app2/app3 bind one of their five.
C3_ExactlyOneLabel ==
  (fout.kind = "label") =>
    LET labels == IF variant = "app" THEN FourLabels
                  ELSE IF variant = "app2" /\ fout.by = "scan" THEN ScanLabelsApp2
                  ELSE FiveLabels
    IN /\ fout.label \in labels
       /\ Cardinality({l \in labels : l = fout.label}) = 1

\* app.py labels a row whose thresholds all coincide with the price
C3_Witness ==
  /\ fout.kind = "label" /\ variant = "app" /\ ~fin.nan
  /\ fin.P2SD = fin.M2SD /\ fin.TL = fin.M2SD /\ fin.Close = fin.M2SD
  /\ fout.label \in FourLabels

\* the boundary convention where app.py and app2/app3 agree with C4
BoundaryCommon ==
  /\ (FiveLevelView /\ StrictlyOrdered(fin)) =>
       /\ (fin.Close = fin.P2SD) => fout.label = "elevated"
       /\ (fin.Close = fin.P1SD) => fout.label = "fair"
       /\ (fin.Close = fin.M1SD) => fout.label = "low"
       /\ (fin.Close = fin.M2SD) => fout.label = "bargain"
  /\ (fout.kind = "label" /\ variant = "app" /\ StrictlyOrdered(fin)) =>
       /\ (fin.Close = fin.P2SD) => fout.label = "relatively_high"
       /\ (fin.Close = fin.TL) => fout.label = "relatively_cheap"

\* C4 as claimed: a price equal to a threshold gets the cheaper of the two
\* adjacent bands in every classifier; a price equal to -2SD gets the
\* cheapest band in app.py and in app2/app3.
C4_Original ==
  /\ BoundaryCommon
  /\ (fout.kind = "label" /\ variant = "app" /\ StrictlyOrdered(fin)
        /\ fin.Close = fin.M2SD) => fout.label = "bargain_zone"

\* C4 amended: as C4, except that app.py tests price < -2SD, so there a price
\* equal to -2SD gets "relatively_cheap", the dearer of the two adjacent bands.
C4_BoundaryConvention ==
  /\ BoundaryCommon
  /\ (fout.kind = "label" /\ variant = "app" /\ StrictlyOrdered(fin)
        /\ fin.Close = fin.M2SD) => fout.label = "relatively_cheap"

\* app.py labels a price equal to -2SD
C4_Witness ==
  /\ fout.kind = "label" /\ variant = "app" /\ StrictlyOrdered(fin)
  /\ fin.Close = fin.M2SD /\ fout.label = "relatively_cheap"

AllCoincide(row) ==
  /\ ~row.nan
  /\ row.Close = row.TL /\ row.P2SD = row.TL /\ row.P1SD = row.TL
  /\ row.M1SD = row.TL /\ row.M2SD = row.TL

\* C5 as claimed: when the standard deviation is 0, so that the latest price
\* equals TL and all four thresholds, the label is "fair".
C5_Original ==
  (FiveLevelView /\ AllCoincide(fin)) => fout.label = "fair"

\* C5 amended: when the standard deviation is 0, so that the latest price
\* equals TL and all four thresholds, the label is "bargain" (price <= -2SD).
C5_ZeroDeviationLabel ==
  (FiveLevelView /\ AllCoincide(fin)) => fout.label = "bargain"

\* app2 labels a row whose thresholds all equal the price
C5_Witness ==
  /\ FiveLevelView /\ variant = "app2" /\ AllCoincide(fin) /\ fin.Close > 0
  /\ fout.label = "bargain"

(***************************************************************************)
(* Properties of the session (Spec).                                       *)
(***************************************************************************)
ScanShown == screen.kind = "run" /\ screen.scan.kind = "scan"

\* the entries of a scan's log whose call returned a result
Succeeded(log) == SelectSeq(log, LAMBDA e : e.ret.kind = "result")

\* C8: a batch scan over a watchlist of N tickers, M of which yield no
\* result from the fetch/compute function, shows exactly N - M summary rows:
\* one row, in watchlist order, for each ticker that yielded a result and no
\* row for a ticker that did not, in every program that has the scan.
C8_ScanRowCount ==
  ScanShown =>
    LET log == screen.scan.log
        rows == screen.scan.rows
        ok == Succeeded(log)
    IN /\ Len(log) = Len(watchlist)
       /\ \A i \in 1..Len(log) : log[i].ticker = watchlist[i].t
       /\ Len(rows) = Len(watchlist) - (Len(log) - Len(ok))
       /\ \A i \in 1..Len(rows) : i <= Len(ok) /\ rows[i].ticker = ok[i].ticker

\* the scan row i and the view of the same run are about the same ticker,
\* time frame and price data
SameSubject(i) ==
  /\ ScanShown /\ screen.view.kind = "view"
  /\ i \in 1..Len(screen.scan.rows)
  /\ screen.scan.rows[i].ticker = screen.ticker
  /\ \E e \in 1..Len(screen.scan.log) :
       /\ screen.scan.log[e].ticker = screen.ticker
       /\ screen.scan.log[e].ret.kind = "result"
       /\ screen.scan.log[e].ret.closes = screen.view.closes

\* C9: a summary row of the batch scan carries the same classification band
\* and the same percent distance from the trend line as the single-ticker
\* view computes for the same ticker, window, time frame and price data
\* (the row prints the distance to one decimal).
C9_RowMatchesView ==
  \A i \in 1..(IF ScanShown THEN Len(screen.scan.rows) ELSE 0) :
    SameSubject(i) =>
      LET row == screen.scan.rows[i]
          d == screen.view.dist_pct
      IN /\ band_of(row.pos) = band_of(screen.view.status)
         /\ band_of(row.pos) \in 1..5
         /\ row.dist = format_fixed(d.num, d.den, d.nan, 10)

\* a scan row for the viewed ticker, off the trend line, next to its view
C9_Witness ==
  \E i \in 1..(IF ScanShown THEN Len(screen.scan.rows) ELSE 0) :
    /\ SameSubject(i)
    /\ screen.scan.rows[i].dist.kind = "number"
    /\ screen.scan.rows[i].dist.v # 0
    /\ band_of(screen.scan.rows[i].pos) > 1

\* C10: whenever the channel function yields no result for the selected
\* ticker, that run shows the user an error or warning message, in every
\* program.
C10_FailureIsShown ==
  (screen.kind = "run" /\ screen.ticker # "" /\ screen.view.kind = "none")
    => screen.msgs # {}

\* the last run asked for a ticker and showed no view for it
FailedRequest ==
  screen.kind = "run" /\ screen.ticker # "" /\ screen.view.kind = "none"

\* C11: a failure on one ticker is not fatal: after a request whose fetch or
\* computation failed, a request in the same session for another ticker whose
\* fetch succeeds (the gateway hands back a non-empty frame) computes and
\* shows that ticker's channel, in every program.
C11_OtherTickerStillServed ==
  [][(/\ FailedRequest
      /\ screen'.kind = "run"
      /\ screen'.ticker \notin {"", screen.ticker}
      /\ screen'.fetched.kind = "frame"
      /\ screen'.fetched.Close # <<>>)
     => (/\ screen'.view.kind = "view"
         /\ screen'.view.closes = screen'.fetched.Close)]_vars

\* the gateway was called for the selected ticker and raised or handed back
\* an empty frame
FetchFailed(sc) ==
  /\ sc.kind = "run" /\ sc.ticker # ""
  /\ \/ sc.fetched.kind = "raise"
     \/ (sc.fetched.kind = "frame" /\ sc.fetched.Close = <<>>)

SameKey(sc1, sc2) ==
  /\ sc1.kind = "run" /\ sc2.kind = "run"
  /\ sc1.ticker = sc2.ticker /\ sc1.time_frame = sc2.time_frame

\* C13: the cache is populated only after a successful fetch: after a request
\* for a key whose fetch failed or returned no data, the next request for the
\* same key within the time-to-live calls the gateway again instead of being
\* answered from the cache.
C13_FailureIsNotCached ==
  [][(FetchFailed(screen) /\ SameKey(screen, screen'))
     => screen'.fetched.kind # "not fetched"]_vars

\* the step is the expiry of an entry
ExpiryStep == \E key \in DOMAIN cache : Expire(key)

\* C14: a cache entry is removed only by the expiry of its time-to-live: no
\* operation of the program invalidates the cache, so every other step keeps
\* every entry, and a request for a key that has an entry is served without
\* calling the gateway.
C14_OnlyExpiryRemoves ==
  [][~ExpiryStep =>
       /\ DOMAIN cache \subseteq DOMAIN cache'
       /\ (/\ screen'.kind = "run"
           /\ <<screen'.ticker, screen'.time_frame>> \in DOMAIN cache)
          => screen'.fetched.kind = "not fetched"]_vars

(***************************************************************************)
(* Properties of the watchlist store (SpecStore).                          *)
(***************************************************************************)
\* a watchlist as a mapping: its set of (ticker, name) pairs
AsMap(w) == {<<w[i].t, w[i].n>> : i \in 1..Len(w)}
NoTickerTwice(w) == \A i, j \in 1..Len(w) : w[i].t = w[j].t => i = j
Without(m, t) == {e \in m : e[1] # t}

AddDone == fout.kind = "add"
RemoveDone == fout.kind = "remove"

\* C15 as claimed: add of an absent ticker t with name n yields the previous
\* mapping plus t -> n, remove of a present ticker t yields the previous
\* mapping minus t, every other entry is unchanged and no ticker appears
\* twice.
C15_Original ==
  /\ NoTickerTwice(watchlist)
  /\ AddDone => AsMap(watchlist) = AsMap(fout.before) \cup {<<fout.ticker, fout.name>>}
  /\ RemoveDone => AsMap(watchlist) = Without(AsMap(fout.before), fout.ticker)

\* C15 amended: as C15, except that app2.py refuses to remove the only entry
\* of the watchlist: there the remove button leaves the mapping unchanged.
C15_AddRemoveFrame ==
  /\ NoTickerTwice(watchlist)
  /\ AddDone => AsMap(watchlist) = AsMap(fout.before) \cup {<<fout.ticker, fout.name>>}
  /\ RemoveDone =>
       /\ fout.refused <=> (variant = "app2" /\ Len(fout.before) = 1)
       /\ AsMap(watchlist) = IF fout.refused THEN AsMap(fout.before)
                             ELSE Without(AsMap(fout.before), fout.ticker)

\* app2.py was asked to remove the only entry and kept it
C15_Witness ==
  /\ RemoveDone /\ fout.refused /\ variant = "app2"
  /\ Len(fout.before) = 1 /\ fout.before[1].t = fout.ticker
  /\ watchlist = fout.before

\* C16: after every successful save the worksheet consists of exactly the
\* header row [ticker, name] followed by one two-column row per watchlist
\* entry, with no row left over from an earlier, longer watchlist.
C16_SheetIsHeaderAndEntries ==
  ((AddDone \/ RemoveDone) /\ fout.saved) =>
    /\ Len(sheet) = 1 + Len(watchlist)
    /\ sheet[1] = <<"ticker", "name">>
    /\ \A i \in 2..Len(sheet) : Len(sheet[i]) = 2
    /\ {<<sheet[i][1], sheet[i][2]>> : i \in 2..Len(sheet)} = AsMap(watchlist)

\* a successful save of a watchlist shorter than the one saved before it
C16_Witness ==
  /\ RemoveDone /\ fout.saved /\ Len(fout.before) = 2 /\ Len(watchlist) = 1
  /\ Len(sheet) = 2 /\ sheet[2] = <<watchlist[1].t, watchlist[1].n>>

(***************************************************************************)
(* Further properties of the channel function (SpecChannel).               *)
(***************************************************************************)
\* a result holding a number for TL and the four bands at every index of the
\* frame, and a number for the slope
Complete(r) ==
  /\ r.kind = "result" /\ ~r.nan
  /\ \A col \in {r.TL, r.P2SD, r.P1SD, r.M1SD, r.M2SD} : Len(col) = Len(r.closes)

\* C12: no partial results: the outcome of a request is either a complete
\* result (TL and all four band values at every index, and the slope) or no
\* result at all; a result missing band values is never returned.
C12_CompleteOrNothing ==
  (fout.kind = "returned") => (fout.ret.kind = "None" \/ Complete(fout.ret))

(***************************************************************************)
(* Properties of the channel computation (SpecBands)                       *)
(***************************************************************************)
HasColumns == fout.kind = "columns" /\ ~fout.ret.nan

\* the residual Close[i] - TL[i] of a result, at the scale of its fit
Residuals(r) == [i \in 1..Len(r.TL) |-> (r.Close[i] - r.TL[i]) \div 10]

\* sd is the population standard deviation of the sequence res, rounded down:
\* the square root of the mean (denominator n) of the squared deviations
IsPopulationStd(sd, res) ==
  LET n == Len(res)
      mean == SeqSum(res) \div n
      var == SeqSum([i \in 1..n |-> (res[i] - mean) * (res[i] - mean)]) \div n
  IN sd >= 0 /\ sd * sd <= var /\ var < (sd + 1) * (sd + 1)

\* the four bands of r are TL -/+ m1 tenths and m2 tenths of r.std
BandsAt(r, m1, m2) ==
  \A i \in 1..Len(r.TL) :
     /\ r.P1SD[i] = r.TL[i] + m1 * r.std
     /\ r.P2SD[i] = r.TL[i] + m2 * r.std
     /\ r.M1SD[i] = r.TL[i] - m1 * r.std
     /\ r.M2SD[i] = r.TL[i] - m2 * r.std

PerfectlyLinear(closes) ==
  /\ Len(closes) >= 2
  /\ \A i \in 1..Len(closes) :
        closes[i] = closes[1] + (closes[2] - closes[1]) * (i - 1)

\* C18: for a perfectly linear series price[i] = a + b*i, n >= 2 (constant
\* when b = 0), the fit has slope b and intercept a, every residual is 0, the
\* standard deviation is 0 and all five band values at index i are a + b*i.
C18_LinearSeriesIsItsOwnChannel ==
  (fout.kind = "columns" /\ PerfectlyLinear(fin.closes)) =>
    LET r == fout.ret
        a == fin.closes[1]
        b == fin.closes[2] - fin.closes[1]
    IN /\ ~r.nan
       /\ r.slope = b * r.den
       /\ r.TL[1] = r.scale * a
       /\ \A i \in 1..Len(r.TL) : Residuals(r)[i] = 0
       /\ r.std = 0
       /\ \A i \in 1..Len(r.TL) :
             /\ r.TL[i] = r.scale * (a + b * (i - 1))
             /\ r.P2SD[i] = r.TL[i] /\ r.P1SD[i] = r.TL[i]
             /\ r.M1SD[i] = r.TL[i] /\ r.M2SD[i] = r.TL[i]

C18_Witness ==
  /\ fout.kind = "columns" /\ variant = "app"
  /\ PerfectlyLinear(fin.closes) /\ Len(fin.closes) >= 3
  /\ fin.closes[2] # fin.closes[1]
  /\ fout.ret.TL[3] = fout.ret.scale * fin.closes[3]

NonConstant(closes) == \E i \in 1..Len(closes) : closes[i] # closes[1]

ViewAtZeroTrend ==
  /\ screen.kind = "run" /\ screen.view.kind = "view"
  /\ ~screen.view.dist_pct.nan /\ screen.view.dist_pct.den = 0

\* C19: the percent distance (price - trend_last) / trend_last * 100 is
\* guarded: when the latest trend value is 0 no division by zero is evaluated
\* and no infinite or NaN distance is displayed, in the single-ticker view
\* and in the rows of a scan.
C19_ZeroTrendIsGuarded ==
  /\ ViewAtZeroTrend => screen.view.dist.kind = "number"
  /\ ScanShown =>
       \A i \in 1..Len(screen.scan.rows) :
          screen.scan.rows[i].dist.kind # "inf"

(***************************************************************************)
(* Further properties of the watchlist store (SpecStore)                   *)
(***************************************************************************)
\* the data rows of a worksheet (all rows below the header) as entries
data_rows(rows) ==
  [i \in 1..(IF Len(rows) > 0 THEN Len(rows) - 1 ELSE 0) |->
     [t |-> rows[i + 1][1], n |-> rows[i + 1][2]]]

Ascending(w) ==
  \A i, j \in 1..Len(w) : i < j => ticker_rank(w[i].t) < ticker_rank(w[j].t)

\* C21: after a successful save_watchlist_to_google the watchlist held in
\* the session has exactly the (ticker, name) entries of the persisted data
\* rows, and both are in ascending ticker order.
C21_SessionEqualsSheetSorted ==
  ((AddDone \/ RemoveDone) /\ fout.saved) =>
    /\ watchlist = data_rows(sheet)
    /\ Ascending(watchlist)
    /\ Ascending(data_rows(sheet))

\* a ticker added behind a greater one, saved, and now in front of it
C21_Witness ==
  /\ AddDone /\ fout.saved
  /\ Len(fout.before) = 1 /\ Len(watchlist) = 2
  /\ watchlist[1].t = fout.ticker /\ watchlist[2] = fout.before[1]
  /\ data_rows(sheet) = watchlist

\* the step is an add or a remove whose save failed
SaveFailedStep ==
  /\ fout'.kind \in {"add", "remove"}
  /\ ~fout'.saved /\ ~fout'.refused

\* C25: if save_watchlist_to_google fails at any of its steps (client, open,
\* clear, update), the persisted watchlist is what it was before the save
\* began; the sheet is never left empty or partially written.
C25_FailedSaveKeepsSheet ==
  [][SaveFailedStep => sheet' = sheet]_vars

\* C26: if the save performed by an add or remove fails, the watchlist of
\* the session after the action equals the one before it, so session and
\* persisted watchlist do not diverge.
C26_FailedSaveKeepsSession ==
  ((AddDone \/ RemoveDone) /\ ~fout.saved) =>
    /\ watchlist = fout.before
    /\ AsMap(watchlist) = AsMap(data_rows(sheet))

\* C30: a remove never leaves the session watchlist empty: after any
\* sequence of adds and removes from a non-empty watchlist it holds at least
\* one entry.
C30_WatchlistNeverEmpty ==
  watchlist # <<>>

(***************************************************************************)
(* Properties of the accounts (SpecAccount)                                *)
(***************************************************************************)
LoginStep == fout'.kind = "login" /\ fout'.ok
SaveStep == fout'.kind \in {"add", "remove"}

\* the step changes no worksheet other than the one titled title, and
\* creates none other
OnlyWorksheet(title) ==
  /\ DOMAIN book' \subseteq DOMAIN book \cup {title}
  /\ \A k \in DOMAIN book : k \in DOMAIN book' /\ (k # title => book'[k] = book[k])

\* C22: across login, add, remove, logout and login as another user in one
\* browser session: after a successful login as U the session's watchlist is
\* the one loaded for U, no entry of an earlier account remains in the
\* session, and every later save writes to U's worksheet only.
C22_SessionBelongsToUser ==
  [][
    /\ LoginStep =>
         (/\ account'.authenticated /\ account'.username = fout'.user
          /\ account'.has_watchlist
          /\ \E outage \in LoadOutages :
                /\ watchlist' = load_watchlist_from_google(fout'.user, book, outage).ret
                /\ book' = load_watchlist_from_google(fout'.user, book, outage).book
          /\ OnlyWorksheet(fout'.user))
    /\ (variant # "app2" /\ ~account'.authenticated) =>
         (~account'.has_watchlist /\ watchlist' = <<>>)
    /\ (variant # "app2" /\ SaveStep) =>
         (account.authenticated /\ OnlyWorksheet(account.username))
  ]_vars

\* u2 has logged in after a session of u1 that added to u1's worksheet, and
\* holds the list of the worksheet just created for u2
C22_Witness ==
  /\ variant = "app4" /\ fout.kind = "login" /\ fout.ok /\ fout.user = "u2"
  /\ account.username = "u2"
  /\ "u1" \in DOMAIN book /\ Len(book["u1"]) = 3
  /\ "u2" \in DOMAIN book /\ book["u2"] = header_and_default
  /\ watchlist = default_dict

\* C23: load_watchlist_from_google for a username without a worksheet
\* creates one worksheet for that user, holding the header row and the
\* default 2330.TW row, and returns the default watchlist; a second load for
\* the same user reads that worksheet, returns the same mapping and creates
\* no further worksheet (loads that meet no outage).
C23_FirstLoadCreatesSecondReads ==
  [][(LoginStep /\ ~account'.load_failed) =>
       /\ ~fout'.had_sheet =>
            (/\ DOMAIN book' = DOMAIN book \cup {fout'.user}
             /\ book'[fout'.user] = <<(<<"ticker", "name">>), (<<"A", "N">>)>>
             /\ \A k \in DOMAIN book : book'[k] = book[k]
             /\ watchlist' = <<[t |-> "A", n |-> "N"]>>)
       /\ (/\ fout'.had_sheet
           /\ book[fout'.user] = <<(<<"ticker", "name">>), (<<"A", "N">>)>>) =>
            (book' = book /\ watchlist' = <<[t |-> "A", n |-> "N"]>>)]_vars

\* a later login of u2 found the worksheet an earlier login had created
C23_Witness ==
  /\ fout.kind = "login" /\ fout.ok /\ fout.user = "u2" /\ fout.had_sheet
  /\ ~account.load_failed
  /\ DOMAIN book = {"u2"}
  /\ book["u2"] = <<(<<"ticker", "name">>), (<<"A", "N">>)>>
  /\ watchlist = <<[t |-> "A", n |-> "N"]>>

\* the tickers persisted in the worksheet titled title
persisted(b, title) ==
  IF title \in DOMAIN b THEN keys(data_rows(b[title])) ELSE {}

\* C24: a failure while loading the watchlist never causes loss of persisted
\* entries: if the load failed and the session fell back to the default
\* list, then after a later add or remove followed by a save every ticker
\* that was persisted is still persisted, except a ticker the user removed.
C24_LoadFailureLosesNothing ==
  [][(SaveStep /\ fout'.saved /\ account.load_failed) =>
       \A t \in persisted(book, worksheet_title(account.username)) :
          \/ fout'.kind = "remove" /\ fout'.ticker = t
          \/ t \in persisted(book', worksheet_title(account.username))]_vars

\* the step loads the watchlist, without an outage, from a worksheet that a
\* save has written
LoadsSavedSheet(title) ==
  /\ LoginStep \/ fout'.kind = "open"
  /\ ~account'.load_failed
  /\ title \in DOMAIN book /\ book[title] # <<>>

\* C27: save / load round trip: for every watchlist mapping reachable through
\* adds and removes (the empty mapping, an entry with an empty ticker and an
\* entry with an empty name included) a successful save followed by a load
\* for the same user returns the same mapping.
C27_SaveLoadRoundTrip ==
  [][LoadsSavedSheet(worksheet_title(account'.username)) =>
       AsMap(watchlist') =
         AsMap(data_rows(book[worksheet_title(account'.username)]))]_vars

\* C29: no dashboard code behind the login gate runs in a session that is
\* not marked authenticated, and a session becomes authenticated only by a
\* login submission whose username and password match an entry of the users
\* worksheet, in every state of the store, also when that worksheet cannot
\* be read.
C29_OnlyWorksheetUsersGetIn ==
  [][variant # "app2" =>
       /\ (SaveStep \/ fout'.kind = "logout") => account.authenticated
       /\ (account'.authenticated /\ ~account.authenticated) =>
            (/\ fout'.kind = "login"
             /\ <<fout'.user, fout'.pw>> \in {<<"u1", "p1">>, <<"u2", "p2">>})]_vars

(***************************************************************************)
(* Properties of two sessions sharing the cache (SpecShared)               *)
(***************************************************************************)
\* C28: in app3, under any interleaving of the script runs of two sessions
\* sharing the result cache, what get_stock_data returns to a session was
\* computed from a download made with that session's current adjusted-price
\* setting (auto_adjust, actions, repair) and time frame; a run never
\* receives an entry computed under another session's settings.
C28_EntryMadeWithOwnSettings ==
  \A s \in DOMAIN fout :
     fout[s].kind = "received" =>
       /\ fout[s].entry.made_with = fout[s].settings
       /\ fout[s].entry.time_frame = fout[s].time_frame

=============================================================================
